---- MODULE Spec2Model ----
(***************************************************************************)
(* Model of the health-metrics and suggestion functions of                 *)
(* project_rash.py (HealthFit Pro): calculate_calories_burned,             *)
(* calculate_bmi, get_bmi_category and generate_suggestions.               *)
(*                                                                         *)
(* Numbers.  A Python number is modelled as a pair <<n, d>>: the exact     *)
(* rational n/d in lowest terms with d > 0, or <<0, 0>> for the float NaN  *)
(* (every ordered comparison with NaN is false, arithmetic on NaN gives    *)
(* NaN).  Rounding of binary floating point is not modelled.               *)
(*                                                                         *)
(* Strings.  workout_type and diet_type are sequences of one-character     *)
(* strings, so that str.lower() is a computation on the characters.        *)
(***************************************************************************)
EXTENDS Integers, Sequences, FiniteSets, TLC

VARIABLES fn, args, ret

vars == <<fn, args, ret>>

(***************************************************************************)
(* Bounds of the input sets.                                               *)
(***************************************************************************)
\* how far (in steps) the sampled inputs extend on each side of a threshold
Spread == 1

(***************************************************************************)
(* Numbers                                                                 *)
(***************************************************************************)
Abs(x) == IF x < 0 THEN -x ELSE x

RECURSIVE GCD(_, _)
GCD(a, b) == IF b = 0 THEN a ELSE GCD(b, a % b)

NaN == <<0, 0>>

IsNaN(x) == x[2] = 0

\* the number n/d (d # 0) in lowest terms with a positive denominator
Num(n, d) ==
    LET g == GCD(Abs(n), Abs(d))
        s == IF d < 0 THEN -1 ELSE 1
    IN  <<s * (n \div g), s * (d \div g)>>

Whole(n) == <<n, 1>>

IsZero(x) == x[2] # 0 /\ x[1] = 0

\* x + y
Add(x, y) ==
    IF IsNaN(x) \/ IsNaN(y) THEN NaN
    ELSE Num(x[1] * y[2] + y[1] * x[2], x[2] * y[2])

\* x * y
Mul(x, y) ==
    IF IsNaN(x) \/ IsNaN(y) THEN NaN
    ELSE Num(x[1] * y[1], x[2] * y[2])

\* x / y for y # 0 (Python raises ZeroDivisionError for y = 0, see Div)
Quot(x, y) ==
    IF IsNaN(x) \/ IsNaN(y) THEN NaN
    ELSE Num(x[1] * y[2], x[2] * y[1])

\* x < y ; false when either side is NaN
Lt(x, y) == ~IsNaN(x) /\ ~IsNaN(y) /\ x[1] * y[2] < y[1] * x[2]

\* x <= y ; false when either side is NaN
Le(x, y) == ~IsNaN(x) /\ ~IsNaN(y) /\ x[1] * y[2] <= y[1] * x[2]

\* x > y
Gt(x, y) == Lt(y, x)

(***************************************************************************)
(* Outcome of a call: a returned value or a raised exception.              *)
(***************************************************************************)
\* the outcome held while no call is made
NoOutcome == [kind |-> "none", raised |-> "", returned |-> << >>]

\* the outcome r of a call as the caller holds it: with the type of the
\* object returned (or "exception", or "none" while no call is made)
Outcome(type, r) ==
    IF r.raised # ""
    THEN [kind |-> "exception", raised |-> r.raised, returned |-> r.returned]
    ELSE [kind |-> type, raised |-> r.raised, returned |-> r.returned]

Return(v) == [raised |-> "", returned |-> <<v>>]

Raise(e) == [raised |-> e, returned |-> << >>]

\* Python's x / y on floats: ZeroDivisionError when y is zero
Div(x, y) == IF IsZero(y) THEN Raise("ZeroDivisionError") ELSE Return(Quot(x, y))

(***************************************************************************)
(* Strings                                                                 *)
(***************************************************************************)
Upper == <<"A","B","C","D","E","F","G","H","I","J","K","L","M",
           "N","O","P","Q","R","S","T","U","V","W","X","Y","Z">>

LowerCase == <<"a","b","c","d","e","f","g","h","i","j","k","l","m",
               "n","o","p","q","r","s","t","u","v","w","x","y","z">>

\* a lower() that leaves every character as it is
lower_unchanged(s) == s

LowerChar(c) ==
    IF \E i \in 1..26 : Upper[i] = c
    THEN LowerCase[CHOOSE i \in 1..26 : Upper[i] = c]
    ELSE c

\* str.lower()
lower(s) == [i \in 1..Len(s) |-> LowerChar(s[i])]

(***************************************************************************)
(* Literals of the source                                                  *)
(***************************************************************************)
yoga == <<"y","o","g","a">>

pilates == <<"p","i","l","a","t","e","s">>

strength == <<"s","t","r","e","n","g","t","h">>

hiit == <<"h","i","i","t">>

vegan == <<"v","e","g","a","n">>

LowBurnMsg == "Reduce calorie deficit - current burn rate is below recommended minimum"

PraiseMsg == "Excellent calorie burn! Maintain this activity level"

SwitchCardioMsg == "Switch to cardio workouts for better results with your profile"

ExtendDurationMsg == "Consider increasing strength training duration for optimal muscle growth"

ProteinMsg == "Increase protein intake by 20% based on workout type"

PlantProteinMsg == "Consider supplementing with plant-based protein sources"

UnderweightMsg == "Focus on nutrient-dense foods and strength training to build healthy mass"

OverweightMsg == "Combine cardio exercise with balanced nutrition for sustainable weight loss"

ObeseMsg == "Consult healthcare provider for personalized weight management plan"

MaintainMsg == "Maintain your current healthy lifestyle habits!"

(***************************************************************************)
(* Health metrics calculations                                             *)
(***************************************************************************)
\* base_calories = (age * 0.2) + (weight * 0.5) + (height * 0.1)
base_calories(age, weight, height) ==
    Add(Add(Mul(age, Num(2, 10)), Mul(weight, Num(5, 10))), Mul(height, Num(1, 10)))

\* a multiplier that divides as Python 2 did: workout_timing / 60 floored
timing_multiplier_floor_division(workout_timing) ==
    IF IsNaN(workout_timing) THEN NaN
    ELSE Add(Whole(1),
             Mul(Whole((workout_timing[1] \div workout_timing[2]) \div 60), Num(5, 10)))

\* a multiplier that takes the minutes for hours: 1 + workout_timing * 0.5
timing_multiplier_per_minute(workout_timing) ==
    Add(Whole(1), Mul(workout_timing, Num(5, 10)))

\* timing_multiplier = 1 + (workout_timing / 60) * 0.5
timing_multiplier(workout_timing) ==
    Add(Whole(1), Mul(Quot(workout_timing, Whole(60)), Num(5, 10)))

calculate_calories_burned(age, weight, height, workout_timing) ==
    Return(Mul(base_calories(age, weight, height), timing_multiplier(workout_timing)))

\* a calculate_bmi that divides by the height in metres, not by its square
calculate_bmi_unsquared(weight, height) ==
    LET height_m == Quot(height, Whole(100))
    IN  Div(weight, height_m)

\* a calculate_bmi that guards the zero height and returns 0
calculate_bmi_guarded(weight, height) ==
    LET height_m == Quot(height, Whole(100))
    IN  IF IsZero(height) THEN Return(Whole(0)) ELSE Div(weight, Mul(height_m, height_m))

calculate_bmi(weight, height) ==
    LET height_m == Quot(height, Whole(100))
    IN  Div(weight, Mul(height_m, height_m))

\* a get_bmi_category whose bands include their upper boundary
get_bmi_category_upper_inclusive(bmi) ==
    IF Le(bmi, Num(185, 10)) THEN "Underweight"
    ELSE IF Lt(Num(185, 10), bmi) /\ Le(bmi, Whole(25)) THEN "Normal Weight"
    ELSE IF Lt(Whole(25), bmi) /\ Le(bmi, Whole(30)) THEN "Overweight"
    ELSE "Obese"

get_bmi_category(bmi) ==
    IF Lt(bmi, Num(185, 10)) THEN "Underweight"
    ELSE IF Le(Num(185, 10), bmi) /\ Lt(bmi, Whole(25)) THEN "Normal Weight"
    ELSE IF Le(Whole(25), bmi) /\ Lt(bmi, Whole(30)) THEN "Overweight"
    ELSE "Obese"

(***************************************************************************)
(* generate_suggestions: the five rule blocks, each taking the list built  *)
(* so far and returning it with the block's appends, then the default.     *)
(***************************************************************************)
\* a calorie rule whose thresholds include their boundary values
CalorieBurnSuggestions_inclusive(suggestions, calories_burned) ==
    IF Le(calories_burned, Whole(2000)) THEN Append(suggestions, LowBurnMsg)
    ELSE IF Le(Whole(3000), calories_burned) THEN Append(suggestions, PraiseMsg)
    ELSE suggestions

\* Calorie burn suggestions
CalorieBurnSuggestions(suggestions, calories_burned) ==
    IF Lt(calories_burned, Whole(2000)) THEN Append(suggestions, LowBurnMsg)
    ELSE IF Gt(calories_burned, Whole(3000)) THEN Append(suggestions, PraiseMsg)
    ELSE suggestions

\* a workout-type rule that fires the cardio advice from bmi 25 on
WorkoutTypeSuggestions_bmi_inclusive(suggestions, bmi, workout_type, workout_timing) ==
    IF lower(workout_type) \in {yoga, pilates} /\ Le(Whole(25), bmi)
    THEN Append(suggestions, SwitchCardioMsg)
    ELSE IF lower(workout_type) = strength /\ Lt(workout_timing, Whole(30))
    THEN Append(suggestions, ExtendDurationMsg)
    ELSE suggestions

\* a workout-type rule whose duration test is turned round (> 30)
WorkoutTypeSuggestions_extend_flipped(suggestions, bmi, workout_type, workout_timing) ==
    IF lower(workout_type) \in {yoga, pilates} /\ Gt(bmi, Whole(25))
    THEN Append(suggestions, SwitchCardioMsg)
    ELSE IF lower(workout_type) = strength /\ Gt(workout_timing, Whole(30))
    THEN Append(suggestions, ExtendDurationMsg)
    ELSE suggestions

\* a workout-type rule that tests bmi against the Underweight boundary 18.5
WorkoutTypeSuggestions_wrong_boundary(suggestions, bmi, workout_type, workout_timing) ==
    IF lower(workout_type) \in {yoga, pilates} /\ Gt(bmi, Num(185, 10))
    THEN Append(suggestions, SwitchCardioMsg)
    ELSE IF lower(workout_type) = strength /\ Lt(workout_timing, Whole(30))
    THEN Append(suggestions, ExtendDurationMsg)
    ELSE suggestions

\* Workout type suggestions
WorkoutTypeSuggestions(suggestions, bmi, workout_type, workout_timing) ==
    IF lower(workout_type) \in {yoga, pilates} /\ Gt(bmi, Whole(25))
    THEN Append(suggestions, SwitchCardioMsg)
    ELSE IF lower(workout_type) = strength /\ Lt(workout_timing, Whole(30))
    THEN Append(suggestions, ExtendDurationMsg)
    ELSE suggestions

\* Diet suggestions, first test
ProteinSuggestion(suggestions, workout_type) ==
    IF lower(workout_type) \in {strength, hiit}
    THEN Append(suggestions, ProteinMsg)
    ELSE suggestions

\* a plant-protein rule that fires from 45 minutes on
PlantProteinSuggestion_inclusive(suggestions, diet_type, workout_timing) ==
    IF lower(diet_type) = vegan /\ Le(Whole(45), workout_timing)
    THEN Append(suggestions, PlantProteinMsg)
    ELSE suggestions

\* a plant-protein rule that does not test the duration
PlantProteinSuggestion_any_duration(suggestions, diet_type, workout_timing) ==
    IF lower(diet_type) = vegan
    THEN Append(suggestions, PlantProteinMsg)
    ELSE suggestions

\* Diet suggestions, second test
PlantProteinSuggestion(suggestions, diet_type, workout_timing) ==
    IF lower(diet_type) = vegan /\ Gt(workout_timing, Whole(45))
    THEN Append(suggestions, PlantProteinMsg)
    ELSE suggestions

\* a BMI rule that tests the thresholds itself instead of the category
BmiBasedSuggestions_own_thresholds(suggestions, bmi) ==
    IF Lt(bmi, Num(185, 10)) THEN Append(suggestions, UnderweightMsg)
    ELSE IF Gt(bmi, Whole(25)) /\ Lt(bmi, Whole(30)) THEN Append(suggestions, OverweightMsg)
    ELSE IF Le(Whole(30), bmi) THEN Append(suggestions, ObeseMsg)
    ELSE suggestions

\* BMI-based suggestions
BmiBasedSuggestions(suggestions, bmi) ==
    LET bmi_category == get_bmi_category(bmi)
    IN  IF bmi_category = "Underweight" THEN Append(suggestions, UnderweightMsg)
        ELSE IF bmi_category = "Overweight" THEN Append(suggestions, OverweightMsg)
        ELSE IF bmi_category = "Obese" THEN Append(suggestions, ObeseMsg)
        ELSE suggestions

\* a default that is appended whatever the list holds
DefaultSuggestion_always(suggestions) ==
    Append(suggestions, MaintainMsg)

\* if not suggestions: append the default
DefaultSuggestion(suggestions) ==
    IF suggestions = << >> THEN Append(suggestions, MaintainMsg) ELSE suggestions

\* a rule sequence in which the protein test is an elif of the workout-type rule
RuleSuggestions_protein_elif(calories_burned, bmi, workout_type, diet_type, workout_timing) ==
    LET s0 == << >>
        s1 == CalorieBurnSuggestions(s0, calories_burned)
        s2 == WorkoutTypeSuggestions(s1, bmi, workout_type, workout_timing)
        s3 == IF s2 # s1 THEN s2 ELSE ProteinSuggestion(s2, workout_type)
        s4 == PlantProteinSuggestion(s3, diet_type, workout_timing)
    IN  BmiBasedSuggestions(s4, bmi)

\* a rule sequence that evaluates the BMI-based block first
RuleSuggestions_bmi_first(calories_burned, bmi, workout_type, diet_type, workout_timing) ==
    LET s0 == BmiBasedSuggestions(<< >>, bmi)
        s1 == CalorieBurnSuggestions(s0, calories_burned)
        s2 == WorkoutTypeSuggestions(s1, bmi, workout_type, workout_timing)
        s3 == ProteinSuggestion(s2, workout_type)
    IN  PlantProteinSuggestion(s3, diet_type, workout_timing)

\* the list as it stands before the default is applied
RuleSuggestions(calories_burned, bmi, workout_type, diet_type, workout_timing) ==
    LET s0 == << >>
        s1 == CalorieBurnSuggestions(s0, calories_burned)
        s2 == WorkoutTypeSuggestions(s1, bmi, workout_type, workout_timing)
        s3 == ProteinSuggestion(s2, workout_type)
        s4 == PlantProteinSuggestion(s3, diet_type, workout_timing)
    IN  BmiBasedSuggestions(s4, bmi)

generate_suggestions(calories_burned, bmi, workout_type, diet_type, workout_timing) ==
    Return(DefaultSuggestion(
        RuleSuggestions(calories_burned, bmi, workout_type, diet_type, workout_timing)))

(***************************************************************************)
(* The /calculate handler                                                  *)
(***************************************************************************)
Digits == <<"0","1","2","3","4","5","6","7","8","9">>

IsDigit(c) == \E i \in 1..10 : Digits[i] = c

DigitValue(c) == (CHOOSE i \in 1..10 : Digits[i] = c) - 1

AllDigits(s) == \A i \in 1..Len(s) : IsDigit(s[i])

RECURSIVE DecimalValue(_)
\* the value of a string of decimal digits (0 for the empty string)
DecimalValue(s) ==
    IF s = << >> THEN 0
    ELSE 10 * DecimalValue(SubSeq(s, 1, Len(s) - 1)) + DigitValue(s[Len(s)])

RECURSIVE Pow10(_)
Pow10(k) == IF k = 0 THEN 1 ELSE 10 * Pow10(k - 1)

HasSign(s) == s # << >> /\ s[1] \in {"+", "-"}

Unsigned(s) == IF HasSign(s) THEN Tail(s) ELSE s

SignOf(s) == IF HasSign(s) /\ s[1] = "-" THEN -1 ELSE 1

\* int(text) for a sign and decimal digits; anything else is a ValueError
int(text) ==
    LET body == Unsigned(text)
    IN  IF body # << >> /\ AllDigits(body)
        THEN Return(Whole(SignOf(text) * DecimalValue(body)))
        ELSE Raise("ValueError")

\* float(text) for "nan" in any letter case and for a sign, decimal digits
\* and at most one point; anything else is a ValueError
float(text) ==
    LET body == Unsigned(text)
        points == {i \in 1..Len(body) : body[i] = "."}
    IN  IF lower(body) = <<"n","a","n">> THEN Return(NaN)
        ELSE IF points = {} /\ body # << >> /\ AllDigits(body)
        THEN Return(Whole(SignOf(text) * DecimalValue(body)))
        ELSE IF Cardinality(points) = 1
        THEN LET p == CHOOSE i \in points : TRUE
                 whole == SubSeq(body, 1, p - 1)
                 frac == SubSeq(body, p + 1, Len(body))
             IN  IF AllDigits(whole) /\ AllDigits(frac) /\ Len(whole) + Len(frac) > 0
                 THEN Return(Num(SignOf(text) * (DecimalValue(whole) * Pow10(Len(frac))
                                                    + DecimalValue(frac)),
                                 Pow10(Len(frac))))
                 ELSE Raise("ValueError")
        ELSE Raise("ValueError")

\* request.form[name]: a field is << >> when absent, <<text>> when present
FormField(form, name) ==
    IF form[name] = << >> THEN Raise("KeyError") ELSE Return(form[name][1])

\* x rounded to a multiple of 1/scale, ties to even: what the format
\* specifications .0f (scale 1) and .1f (scale 10) show; NaN shows as nan
Rounded(x, scale) ==
    IF IsNaN(x) THEN NaN
    ELSE LET n == x[1] * scale
             q == n \div x[2]
             r == n - q * x[2]
             up == 2 * r > x[2] \/ (2 * r = x[2] /\ q % 2 = 1)
         IN  Num(IF up THEN q + 1 ELSE q, scale)

\* render_template(name, ...)
render_template(name, error, results) ==
    [template |-> name, error |-> error, results |-> results]

\* the first raised outcome of the sequence, "" when none raised
FirstRaised(outcomes) ==
    IF \E i \in 1..Len(outcomes) : outcomes[i].raised # ""
    THEN outcomes[CHOOSE i \in 1..Len(outcomes) :
                      /\ outcomes[i].raised # ""
                      /\ \A j \in 1..(i - 1) : outcomes[j].raised = ""].raised
    ELSE ""

\* the body of the try block of calculate
calculate_try(form) ==
    LET age_field == FormField(form, "age")
        age == IF age_field.raised # "" THEN age_field ELSE int(age_field.returned[1])
        weight_field == FormField(form, "weight")
        weight == IF weight_field.raised # "" THEN weight_field
                  ELSE float(weight_field.returned[1])
        height_field == FormField(form, "height")
        height == IF height_field.raised # "" THEN height_field
                  ELSE float(height_field.returned[1])
        gender == FormField(form, "gender")
        workout_type == FormField(form, "workout_type")
        timing_field == FormField(form, "workout_timing")
        workout_timing == IF timing_field.raised # "" THEN timing_field
                          ELSE int(timing_field.returned[1])
        diet_type == FormField(form, "diet_type")
        parsed == FirstRaised(<<age, weight, height, gender, workout_type,
                                workout_timing, diet_type>>)
    IN  IF parsed # "" THEN Raise(parsed)
        ELSE
        LET calories_burned == calculate_calories_burned(age.returned[1], weight.returned[1],
                                   height.returned[1], workout_timing.returned[1])
            bmi == calculate_bmi(weight.returned[1], height.returned[1])
        IN  IF bmi.raised # "" THEN Raise(bmi.raised)
            ELSE
            LET bmi_category == get_bmi_category(bmi.returned[1])
                suggestions == generate_suggestions(calories_burned.returned[1],
                                   bmi.returned[1], workout_type.returned[1],
                                   diet_type.returned[1], workout_timing.returned[1])
                results == [calories_burned |-> Rounded(calories_burned.returned[1], 1),
                            bmi |-> Rounded(bmi.returned[1], 10),
                            bmi_category |-> bmi_category,
                            suggestions |-> suggestions.returned[1],
                            user_data |-> [age |-> age.returned[1],
                                           weight |-> weight.returned[1],
                                           height |-> height.returned[1],
                                           gender |-> gender.returned[1],
                                           workout_type |-> workout_type.returned[1],
                                           workout_timing |-> workout_timing.returned[1],
                                           diet_type |-> diet_type.returned[1]]]
            IN  Return(render_template("results.html", "", <<results>>))

\* a calculate without the except clause
calculate_without_except(form) == calculate_try(form)

\* calculate: the try block, and the except clause that renders the form
\* with str(e) (represented by the exception's type)
calculate(form) ==
    LET outcome == calculate_try(form)
    IN  IF outcome.raised # ""
        THEN Return(render_template("prediction.html", outcome.raised, << >>))
        ELSE outcome

(***************************************************************************)
(* Inputs                                                                  *)
(***************************************************************************)
Around(c) == (c - Spread)..(c + Spread)

\* bmi values in hundredths around the three category boundaries, and others
BmiValues ==
    {Num(k, 100) : k \in Around(1850) \cup Around(2500) \cup Around(3000)}
        \cup {Whole(-1), Whole(0), Whole(22), Whole(26), Whole(40), NaN}

\* calorie values in halves around the two thresholds, and others
CalorieValues ==
    {Num(k, 2) : k \in Around(4000) \cup Around(6000)}
        \cup {Whole(1500), Whole(2500), Whole(3500), NaN}

\* workout durations in minutes around the two thresholds, and others
Durations ==
    {Whole(k) : k \in Around(30) \cup Around(45)} \cup {Whole(20), Whole(40), Whole(60)}

YogaSpellings == {<<"Y","o","g","a">>, <<"y","o","g","a">>, <<"Y","O","G","A">>}

PilatesSpellings == {<<"P","i","l","a","t","e","s">>}

StrengthSpellings ==
    {<<"S","t","r","e","n","g","t","h">>, <<"s","t","r","e","n","g","t","h">>}

HiitSpellings == {<<"H","I","I","T">>, <<"h","i","i","t">>}

OtherWorkouts == {<<"S","w","i","m","m","i","n","g">>, <<"C","a","r","d","i","o">>}

WorkoutTypes ==
    YogaSpellings \cup PilatesSpellings \cup StrengthSpellings \cup HiitSpellings
        \cup OtherWorkouts

VeganSpellings ==
    {<<"V","e","g","a","n">>, <<"v","e","g","a","n">>, <<"V","E","G","A","N">>}

OtherDiets == {<<"B","a","l","a","n","c","e","d">>, <<"K","e","t","o">>}

DietTypes == VeganSpellings \cup OtherDiets

Ages == {Whole(0), Whole(18), Whole(25), Whole(100)}

Weights == {Whole(0), Whole(30), Whole(70), Num(705, 10), Whole(81), Whole(200), NaN}

Heights == {Whole(0), Whole(100), Whole(170), Num(1625, 10), Whole(180), Whole(250)}

Timings == {Whole(0), Whole(10), Whole(45), Whole(180)}

\* texts of the age field: the ends of the declared range 18..100, a text
\* that is no integer; << >> is the absent field
AgeFields == {<< >>, <<(<<"1","8">>)>>, <<(<<"1","0","0">>)>>, <<(<<"a","b","c">>)>>}

\* texts of the weight field: the ends of the declared range 30..200, two
\* weights inside it, one far above it, nan, a text that is no number
WeightFields ==
    {<< >>, <<(<<"3","0">>)>>, <<(<<"2","0","0">>)>>, <<(<<"7","2",".","2">>)>>,
     <<(<<"5","0">>)>>, <<(<<"9","0","0","0">>)>>, <<(<<"n","a","n">>)>>, <<(<<"x">>)>>}

\* texts of the height field: the ends of the declared range 100..250, a
\* height inside it, zero
HeightFields ==
    {<< >>, <<(<<"1","0","0">>)>>, <<(<<"2","5","0">>)>>, <<(<<"1","7","0">>)>>,
     <<(<<"0">>)>>}

GenderFields == {<< >>, <<(<<"m","a","l","e">>)>>}

WorkoutTypeFields == {<< >>, <<(<<"Y","o","g","a">>)>>, <<(<<"S","t","r","e","n","g","t","h">>)>>}

\* texts of the workout_timing field: the ends of the declared range
\* 10..180, a text that is no integer
TimingFields == {<< >>, <<(<<"1","0">>)>>, <<(<<"1","8","0">>)>>, <<(<<"4",".","5">>)>>}

DietTypeFields == {<< >>, <<(<<"V","e","g","a","n">>)>>}

Forms ==
    [age : AgeFields, weight : WeightFields, height : HeightFields,
     gender : GenderFields, workout_type : WorkoutTypeFields,
     workout_timing : TimingFields, diet_type : DietTypeFields]

(***************************************************************************)
(* State: the function being called, its arguments, and its outcome.       *)
(***************************************************************************)
Init ==
    /\ fn = "idle"
    /\ args = << >>
    /\ ret = NoOutcome

CallCalculateCaloriesBurned ==
    /\ fn = "idle"
    /\ \E age \in Ages, weight \in Weights, height \in Heights, workout_timing \in Timings :
          /\ args' = [age |-> age, weight |-> weight, height |-> height,
                      workout_timing |-> workout_timing]
          /\ ret' = Outcome("float",
                         calculate_calories_burned(age, weight, height, workout_timing))
    /\ fn' = "calculate_calories_burned"

CallCalculateBmi ==
    /\ fn = "idle"
    /\ \E weight \in Weights, height \in Heights :
          /\ args' = [weight |-> weight, height |-> height]
          /\ ret' = Outcome("float", calculate_bmi(weight, height))
    /\ fn' = "calculate_bmi"

CallGetBmiCategory ==
    /\ fn = "idle"
    /\ \E bmi \in BmiValues :
          /\ args' = [bmi |-> bmi]
          /\ ret' = Outcome("str", Return(get_bmi_category(bmi)))
    /\ fn' = "get_bmi_category"

CallGenerateSuggestions ==
    /\ fn = "idle"
    /\ \E calories_burned \in CalorieValues, bmi \in BmiValues,
          workout_type \in WorkoutTypes, diet_type \in DietTypes,
          workout_timing \in Durations :
          /\ args' = [calories_burned |-> calories_burned, bmi |-> bmi,
                      workout_type |-> workout_type, diet_type |-> diet_type,
                      workout_timing |-> workout_timing]
          /\ ret' = Outcome("list", generate_suggestions(calories_burned, bmi, workout_type,
                                                         diet_type, workout_timing))
    /\ fn' = "generate_suggestions"

\* a POST to /calculate
CallCalculate ==
    /\ fn = "idle"
    /\ \E age \in AgeFields, weight \in WeightFields, height \in HeightFields,
          gender \in GenderFields, workout_type \in WorkoutTypeFields,
          workout_timing \in TimingFields, diet_type \in DietTypeFields :
          LET form == [age |-> age, weight |-> weight, height |-> height,
                       gender |-> gender, workout_type |-> workout_type,
                       workout_timing |-> workout_timing, diet_type |-> diet_type]
          IN  /\ form \in Forms
              /\ args' = [form |-> form]
              /\ ret' = Outcome("page", calculate(form))
    /\ fn' = "calculate"

\* the caller drops the arguments and the outcome: nothing is kept between calls
Discard ==
    /\ fn # "idle"
    /\ fn' = "idle"
    /\ args' = << >>
    /\ ret' = NoOutcome

Next ==
    \/ CallCalculateCaloriesBurned
    \/ CallCalculateBmi
    \/ CallGetBmiCategory
    \/ CallGenerateSuggestions
    \/ CallCalculate
    \/ Discard

Spec == Init /\ [][Next]_vars

(***************************************************************************)
(* Comparisons of a number x = n/d with the fraction p/q (q > 0), stated   *)
(* on the integers; all are false of NaN.                                  *)
(***************************************************************************)
Below(x, p, q) == x[2] > 0 /\ x[1] * q < p * x[2]

AtLeast(x, p, q) == x[2] > 0 /\ x[1] * q >= p * x[2]

Above(x, p, q) == x[2] > 0 /\ x[1] * q > p * x[2]

AtMost(x, p, q) == x[2] > 0 /\ x[1] * q <= p * x[2]

Categories == {"Underweight", "Normal Weight", "Overweight", "Obese"}

(***************************************************************************)
(* Metrics Calculator                                                      *)
(***************************************************************************)
\* C1: get_bmi_category returns exactly one of the four categories, and for
\* a bmi that is a number: bmi < 18.5 gives Underweight, 18.5 <= bmi < 25
\* gives Normal Weight, 25 <= bmi < 30 gives Overweight, bmi >= 30 gives
\* Obese; 18.49 is Underweight, 18.5 and 24.99 are Normal Weight, 25.0 and
\* 29.99 are Overweight, 30.0 is Obese.
C1_BmiCategoryBands ==
    fn = "get_bmi_category" =>
        LET bmi == args.bmi
            category == ret.returned[1]
        IN  /\ ret.raised = ""
            /\ Len(ret.returned) = 1
            /\ category \in Categories
            /\ Below(bmi, 37, 2) => category = "Underweight"
            /\ AtLeast(bmi, 37, 2) /\ Below(bmi, 25, 1) => category = "Normal Weight"
            /\ AtLeast(bmi, 25, 1) /\ Below(bmi, 30, 1) => category = "Overweight"
            /\ AtLeast(bmi, 30, 1) => category = "Obese"
            /\ bmi = <<1849, 100>> => category = "Underweight"
            /\ bmi = <<37, 2>> => category = "Normal Weight"
            /\ bmi = <<2499, 100>> => category = "Normal Weight"
            /\ bmi = <<25, 1>> => category = "Overweight"
            /\ bmi = <<2999, 100>> => category = "Overweight"
            /\ bmi = <<30, 1>> => category = "Obese"

C1_Witness ==
    /\ fn = "get_bmi_category"
    /\ args.bmi = <<25, 1>>
    /\ ret.returned = <<"Overweight">>

\* C2: for non-negative age, weight, height and duration,
\* calculate_calories_burned returns
\* (age*0.2 + weight*0.5 + height*0.1) * (1 + (duration/60)*0.5); for
\* age 25, weight 70, height 170, duration 45 the base is 57, the
\* multiplier is 1.375 and the result is 78.375.
C2_CaloriesFormula ==
    fn = "calculate_calories_burned" =>
        LET a == args.age
            w == args.weight
            h == args.height
            t == args.workout_timing
            v == ret.returned[1]
            \* (a/5 + w/2 + h/10) = baseNum / baseDen
            baseNum == 2 * a[1] * w[2] * h[2] + 5 * w[1] * a[2] * h[2] + h[1] * a[2] * w[2]
            baseDen == 10 * a[2] * w[2] * h[2]
            \* 1 + t/120 = multNum / multDen
            multNum == 120 * t[2] + t[1]
            multDen == 120 * t[2]
        IN  /\ ret.raised = ""
            /\ Len(ret.returned) = 1
            /\ AtLeast(a, 0, 1) /\ AtLeast(w, 0, 1) /\ AtLeast(h, 0, 1) /\ AtLeast(t, 0, 1)
                  => /\ v[2] > 0
                     /\ v[1] * baseDen * multDen = v[2] * baseNum * multNum
            /\ a = <<25, 1>> /\ w = <<70, 1>> /\ h = <<170, 1>> /\ t = <<45, 1>>
                  => /\ base_calories(a, w, h) = <<57, 1>>
                     /\ timing_multiplier(t) = <<11, 8>>
                     /\ v = <<627, 8>>

C2_Witness ==
    /\ fn = "calculate_calories_burned"
    /\ args = [age |-> <<25, 1>>, weight |-> <<70, 1>>, height |-> <<170, 1>>,
               workout_timing |-> <<45, 1>>]
    /\ ret.returned = <<(<<627, 8>>)>>

\* C3: for weight w > 0 and height h > 0 (cm), calculate_bmi(w, h) returns
\* w divided by the square of h/100.
C3_BmiFormula ==
    fn = "calculate_bmi" /\ Above(args.weight, 0, 1) /\ Above(args.height, 0, 1) =>
        LET w == args.weight
            h == args.height
            v == ret.returned[1]
        IN  /\ ret.raised = ""
            /\ Len(ret.returned) = 1
            /\ v[2] > 0
            \* v = (w1/w2) * 10000 * h2^2 / h1^2
            /\ v[1] * w[2] * h[1] * h[1] = v[2] * w[1] * 10000 * h[2] * h[2]

C3_Witness ==
    /\ fn = "calculate_bmi"
    /\ args = [weight |-> <<141, 2>>, height |-> <<325, 2>>]
    /\ ret.raised = ""
    /\ Len(ret.returned) = 1

\* C4: calculate_bmi with height zero raises ZeroDivisionError for every
\* weight: no value is returned and nothing in the function guards, clamps
\* or recovers, so the caller receives the fault.
C4_BmiZeroHeightFaults ==
    fn = "calculate_bmi" /\ IsZero(args.height) =>
        /\ ret.raised = "ZeroDivisionError"
        /\ ret.returned = << >>

C4_Witness ==
    /\ fn = "calculate_bmi"
    /\ args = [weight |-> <<70, 1>>, height |-> <<0, 1>>]
    /\ ret.raised = "ZeroDivisionError"
    /\ ret.returned = << >>

(***************************************************************************)
(* Suggestion Engine                                                       *)
(***************************************************************************)
\* msg is an entry of the list returned by the call
Has(msg) == \E i \in 1..Len(ret.returned[1]) : ret.returned[1][i] = msg

\* the conditions of the rules, stated on the arguments of the call
IsYogaOrPilates == args.workout_type \in YogaSpellings \cup PilatesSpellings

IsStrength == args.workout_type \in StrengthSpellings

IsHiit == args.workout_type \in HiitSpellings

IsVegan == args.diet_type \in VeganSpellings

CardioCondition == IsYogaOrPilates /\ Above(args.bmi, 25, 1)

ExtendCondition == ~CardioCondition /\ IsStrength /\ Below(args.workout_timing, 30, 1)

\* C5: the low-burn warning is returned iff calories_burned < 2000, the
\* praise iff calories_burned > 3000; never both, and neither for
\* calories_burned in [2000, 3000].
C5_CalorieRule ==
    fn = "generate_suggestions" =>
        /\ Has(LowBurnMsg) <=> Below(args.calories_burned, 2000, 1)
        /\ Has(PraiseMsg) <=> Above(args.calories_burned, 3000, 1)
        /\ ~(Has(LowBurnMsg) /\ Has(PraiseMsg))
        /\ AtLeast(args.calories_burned, 2000, 1) /\ AtMost(args.calories_burned, 3000, 1)
              => ~Has(LowBurnMsg) /\ ~Has(PraiseMsg)

C5_Witness ==
    /\ fn = "generate_suggestions"
    /\ args.calories_burned = <<3999, 2>>
    /\ Has(LowBurnMsg)
    /\ ~Has(PraiseMsg)

\* C6: the switch-to-cardio advice is returned iff workout_type is yoga or
\* pilates and bmi > 25; otherwise the extend-duration advice is returned
\* iff workout_type is strength and duration < 30; never both.
C6_WorkoutTypeRule ==
    fn = "generate_suggestions" =>
        /\ Has(SwitchCardioMsg) <=> CardioCondition
        /\ Has(ExtendDurationMsg) <=> ExtendCondition
        /\ ~(Has(SwitchCardioMsg) /\ Has(ExtendDurationMsg))

C6_Witness ==
    /\ fn = "generate_suggestions"
    /\ args.workout_type = <<"Y","o","g","a">>
    /\ args.bmi = <<2501, 100>>
    /\ Has(SwitchCardioMsg)
    /\ ~Has(ExtendDurationMsg)

\* C7: the protein-increase advice is returned iff workout_type is strength
\* or hiit, whatever the other arguments and whether or not the
\* workout-type rule fired; for strength with duration < 30 both the
\* extend-duration and the protein-increase advice are returned.
C7_ProteinRule ==
    fn = "generate_suggestions" =>
        /\ Has(ProteinMsg) <=> (IsStrength \/ IsHiit)
        /\ IsStrength /\ Below(args.workout_timing, 30, 1)
              => Has(ExtendDurationMsg) /\ Has(ProteinMsg)

C7_Witness ==
    /\ fn = "generate_suggestions"
    /\ args.workout_type = <<"S","t","r","e","n","g","t","h">>
    /\ args.workout_timing = <<29, 1>>
    /\ Has(ExtendDurationMsg)
    /\ Has(ProteinMsg)

\* C8: the plant-protein advice is returned iff diet_type is vegan and
\* duration > 45 (45 itself does not fire), whatever workout_type, bmi and
\* calories_burned are.
C8_PlantProteinRule ==
    fn = "generate_suggestions" =>
        /\ Has(PlantProteinMsg) <=> (IsVegan /\ Above(args.workout_timing, 45, 1))
        /\ args.workout_timing = <<45, 1>> => ~Has(PlantProteinMsg)

C8_Witness ==
    /\ fn = "generate_suggestions"
    /\ args.diet_type = <<"V","e","g","a","n">>
    /\ args.workout_timing = <<46, 1>>
    /\ Has(PlantProteinMsg)

\* C9: the BMI entry follows get_bmi_category(bmi): Underweight adds the
\* bulk-nutrition advice, Overweight the cardio+diet advice, Obese the
\* consult-provider advice, Normal Weight none; at most one of the three is
\* returned.
C9_BmiCategoryRule ==
    fn = "generate_suggestions" =>
        LET bmi_category == get_bmi_category(args.bmi)
        IN  /\ Has(UnderweightMsg) <=> bmi_category = "Underweight"
            /\ Has(OverweightMsg) <=> bmi_category = "Overweight"
            /\ Has(ObeseMsg) <=> bmi_category = "Obese"
            /\ bmi_category = "Normal Weight"
                  => ~Has(UnderweightMsg) /\ ~Has(OverweightMsg) /\ ~Has(ObeseMsg)
            /\ Cardinality({m \in {UnderweightMsg, OverweightMsg, ObeseMsg} : Has(m)}) <= 1

C9_Witness ==
    /\ fn = "generate_suggestions"
    /\ args.bmi = <<30, 1>>
    /\ Has(ObeseMsg)
    /\ ~Has(OverweightMsg)

\* none of the five rules fires on the arguments of the call
NoRuleFires ==
    /\ ~Below(args.calories_burned, 2000, 1)
    /\ ~Above(args.calories_burned, 3000, 1)
    /\ ~CardioCondition
    /\ ~ExtendCondition
    /\ ~(IsStrength \/ IsHiit)
    /\ ~(IsVegan /\ Above(args.workout_timing, 45, 1))
    /\ AtLeast(args.bmi, 37, 2)
    /\ Below(args.bmi, 25, 1)

\* C10: generate_suggestions returns exactly the one-element list
\* <<"Maintain your current healthy lifestyle habits!">> iff none of rules
\* 1-5 fired (as for calorie burn 2500, bmi 22, Swimming, Balanced,
\* duration 40); when a rule fired the default is absent; the list is never
\* empty.
C10_DefaultSuggestion ==
    fn = "generate_suggestions" =>
        /\ ret.raised = ""
        /\ Len(ret.returned) = 1
        /\ (ret.returned[1] = <<MaintainMsg>>) <=> NoRuleFires
        /\ ~NoRuleFires => ~Has(MaintainMsg)
        /\ Len(ret.returned[1]) >= 1

C10_Witness ==
    /\ fn = "generate_suggestions"
    /\ args = [calories_burned |-> <<2500, 1>>, bmi |-> <<22, 1>>,
               workout_type |-> <<"S","w","i","m","m","i","n","g">>,
               diet_type |-> <<"B","a","l","a","n","c","e","d">>,
               workout_timing |-> <<40, 1>>]
    /\ ret.returned = <<(<<MaintainMsg>>)>>

\* the rule a message belongs to (6 for the default)
RuleOf(msg) ==
    IF msg \in {LowBurnMsg, PraiseMsg} THEN 1
    ELSE IF msg \in {SwitchCardioMsg, ExtendDurationMsg} THEN 2
    ELSE IF msg = ProteinMsg THEN 3
    ELSE IF msg = PlantProteinMsg THEN 4
    ELSE IF msg \in {UnderweightMsg, OverweightMsg, ObeseMsg} THEN 5
    ELSE 6

\* C11: the entries of the returned list are in rule-evaluation order
\* (calorie, workout-type, protein-increase, plant-protein, BMI category),
\* none repeated; for calorie burn 1500, bmi 26, Yoga, Balanced, duration
\* 20 the list is exactly low-burn warning, switch-to-cardio advice,
\* Overweight message.
C11_RuleOrder ==
    fn = "generate_suggestions" =>
        LET list == ret.returned[1]
        IN  /\ \A i, j \in 1..Len(list) : i < j => RuleOf(list[i]) < RuleOf(list[j])
            /\ \A i, j \in 1..Len(list) : i # j => list[i] # list[j]
            /\ args = [calories_burned |-> <<1500, 1>>, bmi |-> <<26, 1>>,
                       workout_type |-> <<"Y","o","g","a">>,
                       diet_type |-> <<"B","a","l","a","n","c","e","d">>,
                       workout_timing |-> <<20, 1>>]
                  => list = <<LowBurnMsg, SwitchCardioMsg, OverweightMsg>>

C11_Witness ==
    /\ fn = "generate_suggestions"
    /\ args = [calories_burned |-> <<1500, 1>>, bmi |-> <<26, 1>>,
               workout_type |-> <<"Y","o","g","a">>,
               diet_type |-> <<"B","a","l","a","n","c","e","d">>,
               workout_timing |-> <<20, 1>>]
    /\ ret.returned = <<(<<LowBurnMsg, SwitchCardioMsg, OverweightMsg>>)>>

NotDefault(msg) == msg # MaintainMsg

\* the entries of the returned list that the rules appended: the list as it
\* was before the default was applied (no rule appends the default message)
BeforeDefault == SelectSeq(ret.returned[1], NotDefault)

\* some input makes the rules append exactly k entries
Produced(k) ==
    \E calories_burned \in CalorieValues, bmi \in BmiValues,
       workout_type \in WorkoutTypes, diet_type \in DietTypes,
       workout_timing \in Durations :
        Len(SelectSeq(generate_suggestions(calories_burned, bmi, workout_type,
                                           diet_type, workout_timing).returned[1],
                      NotDefault)) = k

\* C12 as stated: before the default is applied the list holds 0 to 5
\* entries: never more than 5, and each count from 0 through 5 is produced
\* by some input.
C12_ZeroToFiveEntries ==
    fn = "generate_suggestions" =>
        /\ Len(BeforeDefault) <= 5
        /\ \A k \in 0..5 : Produced(k)

\* C12 (amended): before the default is applied the list holds 0 to 4
\* entries: never more than 4, and each count from 0 through 4 is produced
\* by some input.
C12_ZeroToFourEntries ==
    /\ fn = "generate_suggestions" => Len(BeforeDefault) <= 4
    /\ fn = "idle" => \A k \in 0..4 : Produced(k)

C12_Witness ==
    /\ fn = "generate_suggestions"
    /\ Len(BeforeDefault) = 4
    /\ Has(ExtendDurationMsg)

\* C18: generate_suggestions never returns more than 4 entries: the five
\* rules never all fire for one input.
C18_AtMostFourEntries ==
    fn = "generate_suggestions" =>
        /\ Len(ret.returned[1]) <= 4
        /\ ~(/\ Has(LowBurnMsg) \/ Has(PraiseMsg)
             /\ Has(SwitchCardioMsg) \/ Has(ExtendDurationMsg)
             /\ Has(ProteinMsg)
             /\ Has(PlantProteinMsg)
             /\ Has(UnderweightMsg) \/ Has(OverweightMsg) \/ Has(ObeseMsg))
        /\ Has(ProteinMsg) /\ (Has(SwitchCardioMsg) \/ Has(ExtendDurationMsg))
              => /\ IsStrength
                 /\ Below(args.workout_timing, 30, 1)
                 /\ ~Has(PlantProteinMsg)

C18_Witness ==
    /\ fn = "generate_suggestions"
    /\ Len(ret.returned[1]) = 4
    /\ Has(PlantProteinMsg)
    /\ Has(ProteinMsg)

\* the position of msg in the returned list, 0 when it is absent
IndexOf(msg) ==
    IF Has(msg) THEN CHOOSE i \in 1..Len(ret.returned[1]) : ret.returned[1][i] = msg
    ELSE 0

\* C19: when the switch-to-cardio advice is returned, the Overweight or the
\* Obese message is returned too, after it; for yoga or pilates with bmi
\* exactly 25 the switch-to-cardio advice is absent and the Overweight
\* message present.
C19_CardioImpliesWeightMessage ==
    fn = "generate_suggestions" =>
        /\ Has(SwitchCardioMsg) =>
              \/ Has(OverweightMsg) /\ IndexOf(SwitchCardioMsg) < IndexOf(OverweightMsg)
              \/ Has(ObeseMsg) /\ IndexOf(SwitchCardioMsg) < IndexOf(ObeseMsg)
        /\ IsYogaOrPilates /\ args.bmi = <<25, 1>>
              => ~Has(SwitchCardioMsg) /\ Has(OverweightMsg)

C19_Witness ==
    /\ fn = "generate_suggestions"
    /\ args.workout_type = <<"P","i","l","a","t","e","s">>
    /\ args.bmi = <<30, 1>>
    /\ Has(SwitchCardioMsg)
    /\ IndexOf(SwitchCardioMsg) < IndexOf(ObeseMsg)

\* the spellings that differ from s in letter case only
CaseVariants(s) ==
    IF s \in YogaSpellings THEN YogaSpellings
    ELSE IF s \in PilatesSpellings THEN PilatesSpellings
    ELSE IF s \in StrengthSpellings THEN StrengthSpellings
    ELSE IF s \in HiitSpellings THEN HiitSpellings
    ELSE IF s \in VeganSpellings THEN VeganSpellings
    ELSE {s}

\* C14: changing only the letter case of workout_type or diet_type never
\* changes the list generate_suggestions returns.
C14_CaseInsensitive ==
    fn = "generate_suggestions" =>
        /\ \A workout_type \in CaseVariants(args.workout_type) \ {args.workout_type} :
              generate_suggestions(args.calories_burned, args.bmi, workout_type,
                                   args.diet_type, args.workout_timing).returned
                  = ret.returned
        /\ \A diet_type \in CaseVariants(args.diet_type) \ {args.diet_type} :
              generate_suggestions(args.calories_burned, args.bmi, args.workout_type,
                                   diet_type, args.workout_timing).returned
                  = ret.returned

C14_Witness ==
    /\ fn = "generate_suggestions"
    /\ args.workout_type = <<"Y","O","G","A">>
    /\ args.diet_type = <<"V","E","G","A","N">>
    /\ args.workout_timing = <<60, 1>>
    /\ Has(SwitchCardioMsg)
    /\ Has(PlantProteinMsg)

(***************************************************************************)
(* The /calculate handler                                                  *)
(***************************************************************************)
\* the texts of the sampled fields that are integers, and that are numbers
IntegerTexts == {<<"1","8">>, <<"1","0","0">>, <<"1","0">>, <<"1","8","0">>}

NumberTexts ==
    {<<"3","0">>, <<"2","0","0">>, <<"7","2",".","2">>, <<"5","0">>, <<"9","0","0","0">>,
     <<"n","a","n">>, <<"1","0","0">>, <<"2","5","0">>, <<"1","7","0">>, <<"0">>}

FieldNames ==
    {"age", "weight", "height", "gender", "workout_type", "workout_timing", "diet_type"}

\* the request of the call has an absent field, an age or workout_timing
\* that is no integer, a weight or height that is no number, or height zero
FaultyForm ==
    LET form == args.form
    IN  \/ \E name \in FieldNames : form[name] = << >>
        \/ form.age[1] \notin IntegerTexts
        \/ form.workout_timing[1] \notin IntegerTexts
        \/ form.weight[1] \notin NumberTexts
        \/ form.height[1] \notin NumberTexts
        \/ form.height[1] = <<"0">>

Response == ret.returned[1]

ResultsPage == fn = "calculate" /\ ret.raised = "" /\ Response.template = "results.html"

Results == Response.results[1]

\* C15: /calculate never lets a fault escape: with an absent field, an age
\* or workout_timing that is no integer, a weight or height that is no
\* number, or height zero, the response is the prediction form with the
\* error text and never the results page; the results page is rendered only
\* when every field parsed and the four computations completed.
C15_CalculateCatchesFaults ==
    fn = "calculate" =>
        /\ ret.raised = ""
        /\ Len(ret.returned) = 1
        /\ Response.template \in {"prediction.html", "results.html"}
        /\ FaultyForm => /\ Response.template = "prediction.html"
                         /\ Response.error # ""
                         /\ Response.results = << >>
        /\ Response.template = "results.html"
              => /\ ~FaultyForm
                 /\ Response.error = ""
                 /\ Len(Response.results) = 1
                 /\ Results.calories_burned[2] = 1 \/ Results.calories_burned = NaN
                 /\ Results.bmi[2] > 0 \/ Results.bmi = NaN
                 /\ Results.bmi_category \in Categories
                 /\ Len(Results.suggestions) >= 1

C15_Witness ==
    /\ fn = "calculate"
    /\ args.form = [age |-> <<(<<"1","8">>)>>, weight |-> <<(<<"5","0">>)>>,
                    height |-> <<(<<"0">>)>>, gender |-> <<(<<"m","a","l","e">>)>>,
                    workout_type |-> <<(<<"Y","o","g","a">>)>>,
                    workout_timing |-> <<(<<"1","0">>)>>,
                    diet_type |-> <<(<<"V","e","g","a","n">>)>>]
    /\ ret.raised = ""
    /\ ret.returned = <<[template |-> "prediction.html", error |-> "ZeroDivisionError",
                          results |-> << >>]>>

\* C16: on every results page the BMI shown (one decimal place) and the
\* category shown with it agree with the About page's table: under 18.5 is
\* Underweight, 18.5 to 24.9 is Normal, 25 to 29.9 is Overweight, 30 or
\* more is Obese.
C16_ShownBmiAgreesWithTable ==
    ResultsPage =>
        LET shown == Results.bmi
            category == Results.bmi_category
        IN  /\ Below(shown, 185, 10) => category = "Underweight"
            /\ AtLeast(shown, 185, 10) /\ AtMost(shown, 249, 10) => category = "Normal Weight"
            /\ AtLeast(shown, 25, 1) /\ AtMost(shown, 299, 10) => category = "Overweight"
            /\ AtLeast(shown, 30, 1) => category = "Obese"

\* C17: for a request whose age, weight, height and workout_timing lie in
\* the ranges the form declares (18..100, 30..200, 100..250, 10..180) the
\* calorie burn is below 2000: the first suggestion is the low-burn
\* warning, and neither the praise nor the default message is shown.
C17_DeclaredRangesBurnLow ==
    ResultsPage =>
        LET a == Results.user_data.age
            w == Results.user_data.weight
            h == Results.user_data.height
            t == Results.user_data.workout_timing
            list == Results.suggestions
            \* the calorie burn is (baseNum / baseDen) * (multNum / multDen)
            baseNum == 2 * a[1] * w[2] * h[2] + 5 * w[1] * a[2] * h[2] + h[1] * a[2] * w[2]
            baseDen == 10 * a[2] * w[2] * h[2]
            multNum == 120 * t[2] + t[1]
            multDen == 120 * t[2]
        IN  (/\ AtLeast(a, 18, 1) /\ AtMost(a, 100, 1)
             /\ AtLeast(w, 30, 1) /\ AtMost(w, 200, 1)
             /\ AtLeast(h, 100, 1) /\ AtMost(h, 250, 1)
             /\ AtLeast(t, 10, 1) /\ AtMost(t, 180, 1))
            => /\ baseNum * multNum < 2000 * baseDen * multDen
               /\ Below(Results.calories_burned, 2000, 1)
               /\ list[1] = LowBurnMsg
               /\ \A i \in 1..Len(list) : list[i] \notin {PraiseMsg, MaintainMsg}

C17_Witness ==
    /\ ResultsPage
    /\ Results.user_data.age = <<100, 1>>
    /\ Results.user_data.weight = <<200, 1>>
    /\ Results.user_data.height = <<250, 1>>
    /\ Results.user_data.workout_timing = <<180, 1>>
    /\ Results.calories_burned = <<362, 1>>
    /\ Results.suggestions[1] = LowBurnMsg

====
